---- MODULE Spec2Model ----
(***************************************************************************)
(* przntr: the lexer (src/parsing/tokenizer.rs), the one-token lookahead   *)
(* (src/parsing/token_stream.rs) and the parser (src/parsing/parser.rs),   *)
(* each as a state machine with a specification of its own.                *)
(* A text is a sequence of characters; a character is a one-element string *)
(* (or the name of a code point for a character of more than one byte).    *)
(* Byte offsets (start_index, index) are kept apart from the character     *)
(* cursor because str slicing is by byte and aborts off a char boundary.   *)
(***************************************************************************)
EXTENDS Integers, Sequences, FiniteSets, TLC

VARIABLES data, iter, is_failed, line, column, calls, aborted,
          tokens, drained, peeked, ops, outcome,
          style_input, style_result

\* the Tokenizer and the history of its calls
tokenizer_vars == <<data, iter, is_failed, line, column, calls, aborted>>

\* a MockTokenStream (tokens, drained), the PeekableTokenStream over it
\* (peeked), the history of its calls (ops) and the result of Parser::parse
parser_vars == <<tokens, drained, peeked, ops, outcome>>

\* the list given to Style::new and what it returned (<< >>: not called)
style_vars == <<style_input, style_result>>

vars == <<data, iter, is_failed, line, column, calls, aborted,
          tokens, drained, peeked, ops, outcome,
          style_input, style_result>>

(***************************************************************************)
(* Bounds of the model.                                                    *)
(***************************************************************************)
MaxLen == 3
MaxCoreLen == 4
MaxSuffix == 2
MaxDigits == 3
MaxText == 3
MaxCalls == 6

\* results in the vector of a mock stream under peek() and next()
MaxStream == 3

\* calls of peek() and next() on one PeekableTokenStream
MaxOps == 5

\* blocks after the metadata block
MaxBlocks == 2

\* fonts in a style block
MaxFonts == 2

\* fonts in a list given to Style::new
MaxFontList == 3
MaxPlaced == 4

(***************************************************************************)
(* Characters.                                                             *)
(***************************************************************************)
BACKSLASH == "\\"
QUOTE == "\""
COMMA == ","
NEWLINE == "\n"
CODEPOINT_1F192 == "U+1F192"

AsciiLower == {"a","b","c","d","e","f","g","h","i","j","k","l","m",
               "n","o","p","q","r","s","t","u","v","w","x","y","z"}
AsciiUpper == {"A","B","C","D","E","F","G","H","I","J","K","L","M",
               "N","O","P","Q","R","S","T","U","V","W","X","Y","Z"}
AsciiDigit == {"0","1","2","3","4","5","6","7","8","9"}

is_ascii_alphabetic(character) == character \in AsciiLower \cup AsciiUpper
is_ascii_digit(character) == character \in AsciiDigit
is_ascii_alphanumeric(character) ==
    is_ascii_alphabetic(character) \/ is_ascii_digit(character)
is_ascii_whitespace(character) == character \in {" ", "\t", "\n", "\f", "\r"}

\* number of bytes of the UTF-8 encoding of a character
len_utf8(character) ==
    IF character = CODEPOINT_1F192 THEN 4 ELSE 1

DigitValue(character) ==
    CASE character = "0" -> 0 [] character = "1" -> 1 [] character = "2" -> 2
      [] character = "3" -> 3 [] character = "4" -> 4 [] character = "5" -> 5
      [] character = "6" -> 6 [] character = "7" -> 7 [] character = "8" -> 8
      [] character = "9" -> 9

(***************************************************************************)
(* str: byte offsets and slicing.                                          *)
(***************************************************************************)
RECURSIVE ByteOffset(_, _)
\* byte offset of the k-th character of s (k = Len(s) + 1: the length in bytes)
ByteOffset(s, k) ==
    IF k <= 1 THEN 0 ELSE ByteOffset(s, k - 1) + len_utf8(s[k - 1])

\* the k with ByteOffset(s, k) = b, or 0 when b is not a char boundary
CharAtByte(s, b) ==
    LET ks == {k \in 1..(Len(s) + 1) : ByteOffset(s, k) = b}
    IN  IF ks = {} THEN 0 ELSE CHOOSE k \in ks : TRUE

\* &s[from..to]; ok = FALSE is the abort of a slice off a boundary or range
StrSlice(s, from, to) ==
    LET a == CharAtByte(s, from)
        b == CharAtByte(s, to)
    IN  IF a = 0 \/ b = 0 \/ from > to
        THEN [ok |-> FALSE, s |-> << >>]
        ELSE [ok |-> TRUE, s |-> SubSeq(s, a, b - 1)]

RECURSIVE StrReplace(_)
\* s.replace("\\\"", "\""): leftmost, non-overlapping
StrReplace(s) ==
    IF Len(s) = 0 THEN << >>
    ELSE IF Len(s) >= 2 /\ s[1] = BACKSLASH /\ s[2] = QUOTE
         THEN <<QUOTE>> \o StrReplace(SubSeq(s, 3, Len(s)))
         ELSE <<s[1]>> \o StrReplace(Tail(s))

RECURSIVE DigitsValue(_)
DigitsValue(s) ==
    IF Len(s) = 0 THEN 0
    ELSE 10 * DigitsValue(SubSeq(s, 1, Len(s) - 1)) + DigitValue(s[Len(s)])

\* a literal of at most I128SafeDigits digits is inside the i128 range
I128SafeDigits == 38

\* str::parse::<i128>(): an optional sign, then one digit or more, in range.
\* Literals longer than I128SafeDigits are beyond MaxDigits and are rejected
\* here as out of range.
ParseI128(s) ==
    LET signed == Len(s) >= 1 /\ s[1] \in {"-", "+"}
        digits == IF signed THEN Tail(s) ELSE s
        wellformed == Len(digits) >= 1
                      /\ \A k \in 1..Len(digits) : is_ascii_digit(digits[k])
    IN  IF wellformed /\ Len(digits) <= I128SafeDigits
        THEN [ok |-> TRUE,
              value |-> IF signed /\ s[1] = "-" THEN 0 - DigitsValue(digits)
                        ELSE DigitsValue(digits)]
        ELSE [ok |-> FALSE, value |-> 0]

(***************************************************************************)
(* Results of TokenStream::next.  One record shape for every result:       *)
(*   kind   "Ok", "Err", "End", or "Abort" (the process aborted in a       *)
(*          slice, no value was returned)                                  *)
(*   tok    the Token variant or the TokenizerFailureKind variant          *)
(*   text   Name / String text, InvalidIntegerValue text, or the one       *)
(*          character a failure kind carries                               *)
(*   value  Integer value, or the index of UnexpectedCharacterInName       *)
(*   start, end  the SourceLocationRange (a failure: both its location)    *)
(***************************************************************************)
SourceLocation(l, c) == [line |-> l, column |-> c]

NoLocation == SourceLocation(0, 0)

TokenizerOk(tok, text, value, start, end) ==
    [kind |-> "Ok", tok |-> tok, text |-> text, value |-> value,
     start |-> start, end |-> end]

TokenizerErr(location, failure_kind, text, value) ==
    [kind |-> "Err", tok |-> failure_kind, text |-> text, value |-> value,
     start |-> location, end |-> location]

TokenizerEnd ==
    [kind |-> "End", tok |-> "End", text |-> << >>, value |-> 0,
     start |-> NoLocation, end |-> NoLocation]

Abort ==
    [kind |-> "Abort", tok |-> "Abort", text |-> << >>, value |-> 0,
     start |-> NoLocation, end |-> NoLocation]

(***************************************************************************)
(* Tokenizer.  t is the tokenizer's mutable part during one call:          *)
(* [iter, is_failed, line, column]; iter counts the characters consumed.   *)
(***************************************************************************)
current_location(t) == SourceLocation(t.line, t.column)

\* the keyword table of handle_name_or_keyword
Keywords ==
    {<< <<"s","l","i","d","e">>, "KeywordSlide" >>,
     << <<"t","i","t","l","e">>, "KeywordTitle" >>,
     << <<"m","e","t","a","d","a","t","a">>, "KeywordMetadata" >>,
     << <<"s","t","y","l","e">>, "KeywordStyle" >>,
     << <<"f","o","n","t">>, "KeywordFont" >>,
     << <<"n","a","m","e">>, "KeywordName" >>,
     << <<"p","a","t","h">>, "KeywordPath" >>,
     << <<"w","e","i","g","h","t">>, "KeywordWeight" >>,
     << <<"i","t","a","l","i","c">>, "KeywordItalic" >>}

\* handle_name_or_keyword with the two ends of the range exchanged
handle_name_or_keyword_swapped(t, name, start) ==
    IF ~name.ok THEN Abort
    ELSE IF \E kw \in Keywords : kw[1] = name.s
         THEN TokenizerOk((CHOOSE kw \in Keywords : kw[1] = name.s)[2],
                          << >>, 0, current_location(t), start)
         ELSE TokenizerOk("Name", name.s, 0, current_location(t), start)

handle_name_or_keyword(t, name, start) ==
    IF ~name.ok THEN Abort
    ELSE IF \E kw \in Keywords : kw[1] = name.s
         THEN TokenizerOk((CHOOSE kw \in Keywords : kw[1] = name.s)[2],
                          << >>, 0, start, current_location(t))
         ELSE TokenizerOk("Name", name.s, 0, start, current_location(t))

handle_integer(t, integer, start) ==
    IF ~integer.ok THEN Abort
    ELSE LET parsed == ParseI128(integer.s)
         IN  IF parsed.ok
             THEN TokenizerOk("Integer", << >>, parsed.value,
                              start, current_location(t))
             ELSE TokenizerErr(current_location(t), "InvalidIntegerValue",
                               integer.s, 0)

\* is_name_character that knows lower-case letters only
is_name_character_lowercase(character) ==
    character \in AsciiLower \/ is_ascii_digit(character)
    \/ character = "_" \/ character = "-"

is_name_character(character) ==
    is_ascii_alphanumeric(character) \/ character = "_" \/ character = "-"

\* read_next that does not start a new column count at a newline
read_next_keeps_column(t) ==
    IF t.iter < Len(data)
    THEN IF data[t.iter + 1] = NEWLINE
         THEN [t EXCEPT !.iter = @ + 1, !.line = @ + 1, !.column = @ + 1]
         ELSE [t EXCEPT !.iter = @ + 1, !.column = @ + 1]
    ELSE [t EXCEPT !.column = @ + 1]

\* column += 1 comes before the read, also when the input is exhausted
read_next(t) ==
    IF t.iter < Len(data)
    THEN IF data[t.iter + 1] = NEWLINE
         THEN [t EXCEPT !.iter = @ + 1, !.line = @ + 1, !.column = 0]
         ELSE [t EXCEPT !.iter = @ + 1, !.column = @ + 1]
    ELSE [t EXCEPT !.column = @ + 1]

\* the character Peekable::peek shows, if any
HasPeek(t) == t.iter < Len(data)

Peeked(t) == data[t.iter + 1]

check_next(t, what) == HasPeek(t) /\ Peeked(t) = what

(***************************************************************************)
(* TokenizerState, and the outcome of one iteration of the loop of next(): *)
(* either the loop goes on in a state, or next() returns a result.         *)
(***************************************************************************)
StateNone == [kind |-> "None", start_index |-> 0, start_location |-> NoLocation]

ReadingName(start_index, start_location) ==
    [kind |-> "ReadingName", start_index |-> start_index,
     start_location |-> start_location]

ReadingString(start_index, start_location) ==
    [kind |-> "ReadingString", start_index |-> start_index,
     start_location |-> start_location]

ReadingNumber(start_index, start_location) ==
    [kind |-> "ReadingNumber", start_index |-> start_index,
     start_location |-> start_location]

Continue(t, state) == [done |-> FALSE, t |-> t, state |-> state, res |-> TokenizerEnd]

Return(t, res) == [done |-> TRUE, t |-> t, state |-> StateNone, res |-> res]

\* TokenizerState::None if character.is_ascii_alphabetic()
ArmNameStart(t, index) ==
    IF check_next(t, COMMA)
    THEN Return(t, handle_name_or_keyword(t, StrSlice(data, index, index + 1),
                                          current_location(t)))
    ELSE Continue(t, ReadingName(index, current_location(t)))

\* actual_index that stops before the character in front of the comma
actual_index_exclusive(is_next_character_a_comma, index) == index

\* let actual_index = if is_next_character_a_comma { 1 } else { 0 } + index
actual_index(is_next_character_a_comma, index) ==
    (IF is_next_character_a_comma THEN 1 ELSE 0) + index

\* NameFailure without the latch
NameFailure_no_latch(t, index, character) ==
    Return(t, TokenizerErr(current_location(t), "UnexpectedCharacterInName",
                           <<character>>, index))

\* the else branch of the ReadingName arm: the latch and the failure
NameFailure(t, index, character) ==
    Return([t EXCEPT !.is_failed = TRUE],
           TokenizerErr(current_location(t), "UnexpectedCharacterInName",
                        <<character>>, index))

\* TokenizerState::ReadingName { start_index, start_location }
ArmReadingName(t, state, index, character) ==
    LET is_next_character_a_comma == check_next(t, COMMA)
    IN  IF is_name_character(character) /\ ~is_next_character_a_comma
        THEN Continue(t, state)
        ELSE IF is_ascii_whitespace(character) \/ is_next_character_a_comma
        THEN Return(t, handle_name_or_keyword(t,
                 StrSlice(data, state.start_index,
                          actual_index(is_next_character_a_comma, index)),
                 state.start_location))
        ELSE NameFailure(t, index, character)

\* TokenizerState::None if character == '"'
ArmStringStart(t, index) == Continue(t, ReadingString(index, current_location(t)))

\* ArmEscape that takes the escaped quote from the iterator past read_next
ArmEscape_uncounted(t, state) ==
    IF HasPeek(t) /\ Peeked(t) = QUOTE
    THEN Continue([t EXCEPT !.iter = @ + 1], state)
    ELSE IF HasPeek(t)
    THEN Return([t EXCEPT !.is_failed = TRUE],
                TokenizerErr(current_location(t), "UnknownEscapeSequence",
                             <<Peeked(t)>>, 0))
    ELSE Return(t, TokenizerErr(current_location(t), "UnfinishedEscapeSequence",
                                << >>, 0))

\* ArmEscape that accepts every escape and reports none
ArmEscape_lenient(t, state) ==
    IF HasPeek(t) /\ Peeked(t) = QUOTE
    THEN Continue(read_next(t), state)
    ELSE Continue(t, state)

\* TokenizerState::ReadingString { .. } if character == '\\'
ArmEscape(t, state) ==
    IF HasPeek(t) /\ Peeked(t) = QUOTE
    THEN Continue(read_next(t), state)
    ELSE IF HasPeek(t)
    THEN Return([t EXCEPT !.is_failed = TRUE],
                TokenizerErr(current_location(t), "UnknownEscapeSequence",
                             <<Peeked(t)>>, 0))
    ELSE Return(t, TokenizerErr(current_location(t), "UnfinishedEscapeSequence",
                                << >>, 0))

\* StringValue that returns the raw slice of the source
StringValue_raw(slice) == slice

\* the value of a String token: the slice between the quotes, escapes collapsed
StringValue(slice) ==
    IF slice.ok THEN [ok |-> TRUE, s |-> StrReplace(slice.s)] ELSE slice

\* TokenizerState::ReadingString { start_index, start_location } if character == '"'
ArmStringEnd(t, state, index) ==
    LET value == StringValue(StrSlice(data, state.start_index + 1, index))
    IN  IF value.ok
        THEN Return(t, TokenizerOk("String", value.s, 0,
                                   state.start_location, current_location(t)))
        ELSE Return(t, Abort)

\* TokenizerState::None if character.is_ascii_digit() || character == '-'
ArmNumberStart(t, index) == Continue(t, ReadingNumber(index, current_location(t)))

\* TokenizerState::ReadingNumber { start_index, start_location }
ArmReadingNumber(t, state, index) ==
    IF ~HasPeek(t) \/ ~is_ascii_digit(Peeked(t))
    THEN Return(t, handle_integer(t, StrSlice(data, state.start_index, index + 1),
                                  state.start_location))
    ELSE Continue(t, state)

\* TokenizerState::None: whitespace, punctuation, or an unexpected character
ArmNone(t, character) ==
    IF is_ascii_whitespace(character) THEN Continue(t, StateNone)
    ELSE IF character = "{"
    THEN Return(t, TokenizerOk("OpeningBrace", << >>, 0,
                               current_location(t), current_location(t)))
    ELSE IF character = "}"
    THEN Return(t, TokenizerOk("ClosingBrace", << >>, 0,
                               current_location(t), current_location(t)))
    ELSE IF character = COMMA
    THEN Return(t, TokenizerOk("Comma", << >>, 0,
                               current_location(t), current_location(t)))
    ELSE Return(t, TokenizerErr(current_location(t), "UnexpectedCharacter",
                                <<character>>, 0))

\* match state { ... } with the arms in the order of the source
MatchArm(t, state, index, character) ==
    IF state.kind = "None" /\ is_ascii_alphabetic(character)
    THEN ArmNameStart(t, index)
    ELSE IF state.kind = "ReadingName"
    THEN ArmReadingName(t, state, index, character)
    ELSE IF state.kind = "None" /\ character = QUOTE
    THEN ArmStringStart(t, index)
    ELSE IF state.kind = "ReadingString" /\ character = BACKSLASH
    THEN ArmEscape(t, state)
    ELSE IF state.kind = "ReadingString" /\ character = QUOTE
    THEN ArmStringEnd(t, state, index)
    ELSE IF state.kind = "ReadingString"
    THEN Continue(t, state)
    ELSE IF state.kind = "None" /\ (is_ascii_digit(character) \/ character = "-")
    THEN ArmNumberStart(t, index)
    ELSE IF state.kind = "ReadingNumber"
    THEN ArmReadingNumber(t, state, index)
    ELSE ArmNone(t, character)

\* AfterLoop that forgets the string in progress
AfterLoop_string_dropped(t, state) ==
    IF state.kind = "ReadingName"
    THEN handle_name_or_keyword(t,
             StrSlice(data, state.start_index, ByteOffset(data, Len(data) + 1)),
             state.start_location)
    ELSE IF state.kind = "None" \/ state.kind = "ReadingString" THEN TokenizerEnd
    ELSE handle_integer(t,
             StrSlice(data, state.start_index, ByteOffset(data, Len(data) + 1)),
             state.start_location)

\* the match after the loop: the input is exhausted
AfterLoop(t, state) ==
    IF state.kind = "ReadingName"
    THEN handle_name_or_keyword(t,
             StrSlice(data, state.start_index, ByteOffset(data, Len(data) + 1)),
             state.start_location)
    ELSE IF state.kind = "None" THEN TokenizerEnd
    ELSE IF state.kind = "ReadingString"
    THEN TokenizerErr(current_location(t), "UnclosedString", << >>, 0)
    ELSE handle_integer(t,
             StrSlice(data, state.start_index, ByteOffset(data, Len(data) + 1)),
             state.start_location)

RECURSIVE WhileLoop(_, _)
\* while let Some((index, character)) = self.read_next() { match state ... }
WhileLoop(t, state) ==
    IF ~HasPeek(t)
    THEN Return(read_next(t), AfterLoop(read_next(t), state))
    ELSE LET step == MatchArm(read_next(t), state,
                              ByteOffset(data, t.iter + 1), Peeked(t))
         IN  IF step.done THEN step ELSE WhileLoop(step.t, step.state)

\* next that reads on before it looks at the failure latch
Tokenizer_next_reading_on(t) ==
    IF t.is_failed THEN Return(read_next(t), TokenizerEnd)
    ELSE WhileLoop(t, StateNone)

\* next that clears the failure latch when it answers End for it
Tokenizer_next_latch_cleared(t) ==
    IF t.is_failed THEN Return([t EXCEPT !.is_failed = FALSE], TokenizerEnd)
    ELSE WhileLoop(t, StateNone)

\* TokenStream::next for Tokenizer
Tokenizer_next(t) ==
    IF t.is_failed THEN Return(t, TokenizerEnd) ELSE WhileLoop(t, StateNone)

(***************************************************************************)
(* Inputs.                                                                 *)
(***************************************************************************)
RECURSIVE Strings(_, _)
\* every text of at most n characters of the set chars
Strings(chars, n) ==
    IF n = 0 THEN {<< >>}
    ELSE LET shorter == Strings(chars, n - 1)
         IN  shorter \cup {Append(s, c) : s \in shorter, c \in chars}

Chars == {"a", "Z", "1", "-", "_", COMMA, " ", NEWLINE, QUOTE, BACKSLASH,
          "{", "}", "#", CODEPOINT_1F192}

CoreChars == {"a", "1", COMMA, " ", NEWLINE, QUOTE, BACKSLASH}

KeywordTexts == {kw[1] : kw \in Keywords}

Words == KeywordTexts \cup {<<"s","l","i","d">>, <<"s","l","i","d","e","s">>,
                            <<"S","l","i","d","e">>, <<"i","t","a","l","i","c","-">>}

SuffixChars == {" ", COMMA, "a", QUOTE, NEWLINE}

DigitChars == {"0", "1", "9"}

NumberSuffixes == {<< >>, <<COMMA>>, <<" ">>, <<COMMA, "a">>, <<" ", "a">>,
                   <<" ", COMMA>>, <<NEWLINE, "1">>}

TextChars == {"a", QUOTE, " ", COMMA, "1", NEWLINE, CODEPOINT_1F192}

RECURSIVE Escape(_)
\* the text with every double quote replaced by backslash-quote
Escape(s) ==
    IF Len(s) = 0 THEN << >>
    ELSE (IF s[1] = QUOTE THEN <<BACKSLASH, QUOTE>> ELSE <<s[1]>>) \o Escape(Tail(s))

Encode(s) == <<QUOTE>> \o Escape(s) \o <<QUOTE>>

Inputs ==
    Strings(Chars, MaxLen)
    \cup Strings(CoreChars, MaxCoreLen)
    \cup {w \o suffix : w \in Words, suffix \in Strings(SuffixChars, MaxSuffix)}
    \cup {sign \o digits \o suffix :
            sign \in {<< >>, <<"-">>},
            digits \in Strings(DigitChars, MaxDigits) \ {<< >>},
            suffix \in NumberSuffixes}
    \cup {Encode(s) : s \in Strings(TextChars, MaxText)}

(***************************************************************************)
(* MockTokenStream and PeekableTokenStream (token_stream.rs).              *)
(* tokens is the vector the mock was built with; a stream state s is       *)
(* [peeked, drained]: the cache of the PeekableTokenStream (<< >> is None, *)
(* <<r>> is Some(r)) and the number of calls of next() the mock has served. *)
(***************************************************************************)
\* an Ok result of a mock stream: a token and its range
MockOk(tok, text, value, location) ==
    TokenizerOk(tok, text, value, location, location)

\* MockTokenStream::next: the results of the vector in order, End afterwards
MockTokenStream_next(s) ==
    [res |-> IF s.drained < Len(tokens) THEN tokens[s.drained + 1]
             ELSE TokenizerEnd,
     s   |-> [s EXCEPT !.drained = s.drained + 1]]

\* PeekableTokenStream::new
PeekableTokenStream_new == [peeked |-> << >>, drained |-> 0]

PeekableTokenStream_next_uncached(s) ==
    MockTokenStream_next(s)

\* TokenStream::next of PeekableTokenStream: the cached result if there is
\* one (the cache is emptied), else the next result of the inner stream
PeekableTokenStream_next(s) ==
    IF s.peeked # << >>
    THEN [res |-> s.peeked[1], s |-> [s EXCEPT !.peeked = << >>]]
    ELSE MockTokenStream_next(s)

PeekableTokenStream_peek_uncached(s) ==
    LET n == PeekableTokenStream_next(s)
    IN  [res |-> n.res, s |-> n.s]

PeekableTokenStream_peek_refetching(s) ==
    LET n == MockTokenStream_next(s)
    IN  [res |-> n.res, s |-> [n.s EXCEPT !.peeked = <<n.res>>]]

\* PeekableTokenStream::peek: caches the result of self.next() and returns it
PeekableTokenStream_peek(s) ==
    LET n == PeekableTokenStream_next(s)
    IN  [res |-> n.res, s |-> [n.s EXCEPT !.peeked = <<n.res>>]]

(***************************************************************************)
(* Presentation (presentation.rs).                                         *)
(***************************************************************************)
Slide_new(name) == [name |-> name]

FontDescriptor(name, weight, italic) ==
    [name |-> name, weight |-> weight, italic |-> italic]

Font_new(name, path, weight, italic) ==
    [path |-> path, descriptor |-> FontDescriptor(name, weight, italic)]

NoDescriptor == FontDescriptor(<< >>, 0, FALSE)

RECURSIVE Style_insert_all_by_path(_, _)
Style_insert_all_by_path(fonts, fonts_input) ==
    IF fonts_input = << >>
    THEN [ok |-> TRUE, fonts |-> fonts, duplicate |-> NoDescriptor]
    ELSE LET font == Head(fonts_input)
             held == {f \in fonts : f = font}
         IN  IF held # {}
             THEN [ok |-> FALSE, fonts |-> {},
                   duplicate |-> (CHOOSE f \in held : TRUE).descriptor]
             ELSE Style_insert_all_by_path(fonts \cup {font}, Tail(fonts_input))

RECURSIVE Style_insert_all(_, _)
\* the loop of Style::new: fonts is the HashMap (a set of fonts, one for each
\* descriptor); insert() of a descriptor the map holds hands back the font it
\* held, and Style::new returns DuplicateFont with the descriptor of that font
Style_insert_all(fonts, fonts_input) ==
    IF fonts_input = << >>
    THEN [ok |-> TRUE, fonts |-> fonts, duplicate |-> NoDescriptor]
    ELSE LET font == Head(fonts_input)
             held == {f \in fonts : f.descriptor = font.descriptor}
         IN  IF held # {}
             THEN [ok |-> FALSE, fonts |-> {},
                   duplicate |-> (CHOOSE f \in held : TRUE).descriptor]
             ELSE Style_insert_all(fonts \cup {font}, Tail(fonts_input))

Style_new(fonts_input) == Style_insert_all({}, fonts_input)

Presentation_new(title, slides, style) ==
    [title |-> title, slides |-> slides, style |-> style]

NoPresentation == Presentation_new(<< >>, << >>, Style_new(<< >>))

(***************************************************************************)
(* Parser (parser.rs) over a PeekableTokenStream.  A step of the parser    *)
(* returns [status, s, val, err]: "Ok" with the value, "Err" with the      *)
(* ParserError, or "Abort" when the process panics; s is the stream state  *)
(* it leaves.  An expected text "A, B or C" is the sequence <<A, B, C>>.   *)
(***************************************************************************)
SourceLocationRange(start, end) == [start |-> start, end |-> end]

NoRange == SourceLocationRange(NoLocation, NoLocation)

\* format!("{:?}", token): the variant and its payload
TokenDebug(res) == [tok |-> res.tok, text |-> res.text, value |-> res.value]

NoToken == [tok |-> "", text |-> << >>, value |-> 0]

NoFailure == [kind |-> "", text |-> << >>, value |-> 0, location |-> NoLocation]

UnexpectedToken(actual, expected, location) ==
    [variant |-> "UnexpectedToken", actual |-> actual, expected |-> expected,
     location |-> location, failure |-> NoFailure]

TokenizerFailure(res) ==
    [variant |-> "TokenizerFailure", actual |-> NoToken, expected |-> << >>,
     location |-> NoRange,
     failure |-> [kind |-> res.tok, text |-> res.text, value |-> res.value,
                  location |-> res.start]]

UnexpectedEndOfStream(expected) ==
    [variant |-> "UnexpectedEndOfStream", actual |-> NoToken,
     expected |-> expected, location |-> NoRange, failure |-> NoFailure]

NoError ==
    [variant |-> "", actual |-> NoToken, expected |-> << >>,
     location |-> NoRange, failure |-> NoFailure]

ParserOk(s, val) == [status |-> "Ok", s |-> s, val |-> val, err |-> NoError]

ParserErr(s, err) == [status |-> "Err", s |-> s, val |-> << >>, err |-> err]

ParserAbort(s) == [status |-> "Abort", s |-> s, val |-> << >>, err |-> NoError]

handle_invalid_result_unlocated(res, expected) ==
    IF res.kind = "Ok"
    THEN UnexpectedToken(TokenDebug(res), expected, NoRange)
    ELSE IF res.kind = "Err" THEN TokenizerFailure(res)
    ELSE UnexpectedEndOfStream(expected)

handle_invalid_result(res, expected) ==
    IF res.kind = "Ok"
    THEN UnexpectedToken(TokenDebug(res), expected,
                         SourceLocationRange(res.start, res.end))
    ELSE IF res.kind = "Err" THEN TokenizerFailure(res)
    ELSE UnexpectedEndOfStream(expected)

\* the element of a set of one element.  A step's result is bound as
\* {.. r .. : r \in {step}}: the step is taken once and r is its result
The(set) == CHOOSE element \in set : TRUE

\* consume!: the next result of the stream must be an Ok of the token tok;
\* the value is that result (its payload is what the pattern binds)
consume(s, tok, expected) ==
    The({IF n.res.kind = "Ok" /\ n.res.tok = tok
         THEN ParserOk(n.s, n.res)
         ELSE ParserErr(n.s, handle_invalid_result(n.res, <<expected>>)) :
            n \in {PeekableTokenStream_next(s)}})

RECURSIVE ConsumeSequence(_, _, _)
\* consume! after consume!: patterns is a sequence of <<tok, expected>>, the
\* value is the sequence of the results consumed, the first error ends it
ConsumeSequence(s, patterns, consumed) ==
    IF patterns = << >> THEN ParserOk(s, consumed)
    ELSE The({IF c.status # "Ok" THEN c
              ELSE ConsumeSequence(c.s, Tail(patterns), Append(consumed, c.val)) :
                 c \in {consume(s, Head(patterns)[1], Head(patterns)[2])}})

parse_slide(s) ==
    The({IF c.status # "Ok" THEN c ELSE ParserOk(c.s, Slide_new(c.val[2].text)) :
            c \in {ConsumeSequence(s, << <<"KeywordSlide", "KeywordSlide">>,
                                         <<"String", "String(slide_name)">>,
                                         <<"OpeningBrace", "OpeningBrace">>,
                                         <<"ClosingBrace", "ClosingBrace">> >>,
                                   << >>)}})

parse_metadata(s) ==
    The({IF c.status # "Ok" THEN c ELSE ParserOk(c.s, c.val[4].text) :
            c \in {ConsumeSequence(s, << <<"KeywordMetadata", "KeywordMetadata">>,
                                         <<"OpeningBrace", "OpeningBrace">>,
                                         <<"KeywordTitle", "KeywordTitle">>,
                                         <<"String", "String(title)">>,
                                         <<"ClosingBrace", "ClosingBrace">> >>,
                                   << >>)}})

\* a conversion that stores a negative weight as 0
as_u32_saturating(v) ==
    IF v < 0 THEN [hi |-> 0, lo |-> 0]
    ELSE [hi |-> (v \div 65536) % 65536, lo |-> v % 65536]

\* font_weight as u32: the low 32 bits, as two 16-bit halves
as_u32(v) == [hi |-> (v \div 65536) % 65536, lo |-> v % 65536]

parse_font_end_defaulting(s, f) ==
    IF f.name = << >> \/ f.path = << >>
    THEN ParserAbort(s)
    ELSE ParserOk(s, Font_new(f.name[1], f.path[1],
                              IF f.weight = << >> THEN as_u32(0)
                              ELSE as_u32(f.weight[1]), f.italic))

\* Font::new(name.unwrap(), path.unwrap(), weight.unwrap() as u32, italic):
\* unwrap() of a field the block never set panics
parse_font_end(s, f) ==
    IF f.name = << >> \/ f.path = << >> \/ f.weight = << >>
    THEN ParserAbort(s)
    ELSE ParserOk(s, Font_new(f.name[1], f.path[1], as_u32(f.weight[1]), f.italic))

parse_font_field_no_comma(s, tok, expected) ==
    ConsumeSequence(s, << <<tok, expected>> >>, << >>)

\* a field's value, then consume!(Comma)
parse_font_field(s, tok, expected) ==
    ConsumeSequence(s, << <<tok, expected>>, <<"Comma", "Comma">> >>, << >>)

FontExpected == <<"KeywordName", "KeywordPath", "KeywordWeight", "ClosingBrace">>

RECURSIVE parse_font_loop(_, _)
\* the while-let loop of parse_font: a result that is not Ok ends it
parse_font_loop(s, f) ==
    The({IF n.res.kind # "Ok" THEN parse_font_end(n.s, f)
         ELSE IF n.res.tok = "KeywordName"
         THEN The({IF c.status # "Ok" THEN c
                   ELSE parse_font_loop(c.s, [f EXCEPT !.name = <<c.val[1].text>>]) :
                      c \in {parse_font_field(n.s, "Name", "Name(font_name)")}})
         ELSE IF n.res.tok = "KeywordPath"
         THEN The({IF c.status # "Ok" THEN c
                   ELSE parse_font_loop(c.s, [f EXCEPT !.path = <<c.val[1].text>>]) :
                      c \in {parse_font_field(n.s, "String", "String(font_path)")}})
         ELSE IF n.res.tok = "KeywordWeight"
         THEN The({IF c.status # "Ok" THEN c
                   ELSE parse_font_loop(c.s, [f EXCEPT !.weight = <<c.val[1].value>>]) :
                      c \in {parse_font_field(n.s, "Integer", "Integer(font_weight)")}})
         ELSE IF n.res.tok = "ClosingBrace" THEN parse_font_end(n.s, f)
         ELSE ParserErr(n.s, UnexpectedToken(TokenDebug(n.res), FontExpected,
                                 SourceLocationRange(n.res.start, n.res.end))) :
            n \in {PeekableTokenStream_next(s)}})

parse_font(s) ==
    The({IF c.status # "Ok" THEN c
         ELSE parse_font_loop(c.s, [name |-> << >>, path |-> << >>,
                                    weight |-> << >>, italic |-> FALSE]) :
            c \in {ConsumeSequence(s, << <<"KeywordFont", "KeywordFont">>,
                                         <<"OpeningBrace", "OpeningBrace">> >>,
                                   << >>)}})

\* parse_style after the peek that shows KeywordFont: the font, the closing
\* brace, Style::new
parse_style_font(s) ==
    The({IF font.status # "Ok" THEN font
         ELSE The({IF e.status # "Ok" THEN e
                   ELSE ParserOk(e.s, Style_new(<<font.val>>)) :
                      e \in {consume(font.s, "ClosingBrace", "ClosingBrace")}}) :
            font \in {parse_font(s)}})

\* parse_style: one peek, one font, the closing brace
parse_style(s) ==
    The({IF c.status # "Ok" THEN c
         ELSE The({IF p.res.kind = "Ok" /\ p.res.tok = "KeywordFont"
                   THEN parse_style_font(p.s)
                   ELSE ParserErr(p.s, handle_invalid_result(p.res, <<"KeywordFont">>)) :
                      p \in {PeekableTokenStream_peek(c.s)}}) :
            c \in {ConsumeSequence(s, << <<"KeywordStyle", "KeywordStyle">>,
                                         <<"OpeningBrace", "OpeningBrace">> >>,
                                   << >>)}})

slides_push_front(slides, slide) == <<slide>> \o slides

\* slides.push(..)
slides_push(slides, slide) == Append(slides, slide)

RECURSIVE parse_loop_lenient(_, _, _)
\* a loop that stops at any result that starts no block
parse_loop_lenient(s, slides, style) ==
    The({IF p.res.kind = "Ok" /\ p.res.tok = "KeywordSlide"
         THEN The({IF slide.status # "Ok" THEN slide
                   ELSE parse_loop_lenient(slide.s, slides_push(slides, slide.val),
                                           style) :
                      slide \in {parse_slide(p.s)}})
         ELSE IF p.res.kind = "Ok" /\ p.res.tok = "KeywordStyle"
         THEN The({IF parsed.status # "Ok" THEN parsed
                   ELSE parse_loop_lenient(parsed.s, slides, <<parsed.val>>) :
                      parsed \in {parse_style(p.s)}})
         ELSE ParserOk(p.s, [slides |-> slides, style |-> style]) :
            p \in {PeekableTokenStream_peek(s)}})

RECURSIVE parse_loop_first_style(_, _, _)
\* a loop that keeps the style of the first style block
parse_loop_first_style(s, slides, style) ==
    The({IF p.res.kind = "End"
         THEN ParserOk(p.s, [slides |-> slides, style |-> style])
         ELSE IF p.res.kind = "Ok" /\ p.res.tok = "KeywordSlide"
         THEN The({IF slide.status # "Ok" THEN slide
                   ELSE parse_loop_first_style(slide.s,
                            slides_push(slides, slide.val), style) :
                      slide \in {parse_slide(p.s)}})
         ELSE IF p.res.kind = "Ok" /\ p.res.tok = "KeywordStyle"
         THEN The({IF parsed.status # "Ok" THEN parsed
                   ELSE parse_loop_first_style(parsed.s, slides,
                            IF style = << >> THEN <<parsed.val>> ELSE style) :
                      parsed \in {parse_style(p.s)}})
         ELSE ParserErr(p.s, handle_invalid_result(p.res,
                                 <<"KeywordSlide", "KeywordMetadata">>)) :
            p \in {PeekableTokenStream_peek(s)}})

RECURSIVE parse_loop(_, _, _)
\* the loop of parse: style is << >> for None and <<style>> for Some(style)
parse_loop(s, slides, style) ==
    The({IF p.res.kind = "End"
         THEN ParserOk(p.s, [slides |-> slides, style |-> style])
         ELSE IF p.res.kind = "Ok" /\ p.res.tok = "KeywordSlide"
         THEN The({IF slide.status # "Ok" THEN slide
                   ELSE parse_loop(slide.s, slides_push(slides, slide.val), style) :
                      slide \in {parse_slide(p.s)}})
         ELSE IF p.res.kind = "Ok" /\ p.res.tok = "KeywordStyle"
         THEN The({IF parsed.status # "Ok" THEN parsed
                   ELSE parse_loop(parsed.s, slides, <<parsed.val>>) :
                      parsed \in {parse_style(p.s)}})
         ELSE ParserErr(p.s, handle_invalid_result(p.res,
                                 <<"KeywordSlide", "KeywordMetadata">>)) :
            p \in {PeekableTokenStream_peek(s)}})

\* the end of parse: style.unwrap_or(Style::new(vec![]))
parse_end(s, title, body) ==
    ParserOk(s, Presentation_new(title, body.slides,
                    IF body.style = << >> THEN Style_new(<< >>) ELSE body.style[1]))

\* Parser::parse
parse(s) ==
    The({IF title.status # "Ok" THEN title
         ELSE The({IF body.status # "Ok" THEN body
                   ELSE parse_end(body.s, title.val, body.val) :
                      body \in {parse_loop(title.s, << >>, << >>)}}) :
            title \in {parse_metadata(s)}})

\* no call of parse yet
NotParsed == [status |-> "None", val |-> NoPresentation, err |-> NoError]

\* no call of Style::new
StyleIdle ==
    /\ style_input = << >>
    /\ style_result = << >>

(***************************************************************************)
(* The state machine: Tokenizer::new, then calls of next().                *)
(* calls is the history of the calls: the cursor and the latch before the  *)
(* call, and the result.  aborted: the process has aborted.                *)
(***************************************************************************)
Init ==
    /\ data \in Inputs
    /\ iter = 0
    /\ is_failed = FALSE
    /\ line = 0
    /\ column = 0
    /\ calls = << >>
    /\ aborted = FALSE
    /\ tokens = << >>
    /\ peeked = PeekableTokenStream_new.peeked
    /\ drained = PeekableTokenStream_new.drained
    /\ ops = << >>
    /\ outcome = NotParsed
    /\ StyleIdle

TokenizerNext ==
    /\ ~aborted
    /\ Len(calls) < MaxCalls
    /\ LET t == [iter |-> iter, is_failed |-> is_failed,
                 line |-> line, column |-> column]
           out == Tokenizer_next(t)
       IN  /\ iter' = out.t.iter
           /\ is_failed' = out.t.is_failed
           /\ line' = out.t.line
           /\ column' = out.t.column
           /\ aborted' = (out.res.kind = "Abort")
           /\ calls' = Append(calls, [pos |-> iter, failed |-> is_failed,
                                      line |-> line, column |-> column,
                                      res |-> out.res])
    /\ UNCHANGED <<data, parser_vars, style_vars>>

Next == TokenizerNext

Spec == Init /\ [][Next]_vars

(***************************************************************************)
(* The streams the mock is built with.                                     *)
(***************************************************************************)
Token(tok) == MockOk(tok, << >>, 0, NoLocation)

TokenString(text) == MockOk("String", text, 0, NoLocation)

TokenName(text) == MockOk("Name", text, 0, NoLocation)

TokenInteger(value) == MockOk("Integer", << >>, value, NoLocation)

MockFailure == TokenizerErr(NoLocation, "UnclosedString", << >>, 0)

\* the k-th result of a stream lies at line 0, column k
Located(stream) ==
    [k \in 1..Len(stream) |->
        IF stream[k].kind = "End" THEN stream[k]
        ELSE [stream[k] EXCEPT !.start = SourceLocation(0, k),
                               !.end = SourceLocation(0, k)]]

Unlocated(stream) ==
    [k \in 1..Len(stream) |->
        [stream[k] EXCEPT !.start = NoLocation, !.end = NoLocation]]

MockResults == {Token("OpeningBrace"), Token("ClosingBrace"), MockFailure,
                TokenizerEnd}

MockStreams == {Located(stream) : stream \in Strings(MockResults, MaxStream)}

(***************************************************************************)
(* The state machine of a PeekableTokenStream over a MockTokenStream:      *)
(* calls of peek() and of next().  ops is the history of the calls: the    *)
(* operation, its result and the number of results the mock has served     *)
(* after it.                                                               *)
(***************************************************************************)
TokenizerIdle ==
    /\ data = << >>
    /\ iter = 0
    /\ is_failed = FALSE
    /\ line = 0
    /\ column = 0
    /\ calls = << >>
    /\ aborted = FALSE

InitPeek ==
    /\ TokenizerIdle
    /\ tokens \in MockStreams
    /\ peeked = PeekableTokenStream_new.peeked
    /\ drained = PeekableTokenStream_new.drained
    /\ ops = << >>
    /\ outcome = NotParsed
    /\ StyleIdle

PeekableCall(op, out) ==
    /\ peeked' = out.s.peeked
    /\ drained' = out.s.drained
    /\ ops' = Append(ops, [op |-> op, res |-> out.res, drained |-> out.s.drained])
    /\ UNCHANGED <<tokenizer_vars, tokens, outcome, style_vars>>

PeekableNext ==
    /\ Len(ops) < MaxOps
    /\ PeekableCall("next", PeekableTokenStream_next(
                                [peeked |-> peeked, drained |-> drained]))

PeekablePeek ==
    /\ Len(ops) < MaxOps
    /\ PeekableCall("peek", PeekableTokenStream_peek(
                                [peeked |-> peeked, drained |-> drained]))

NextPeek == PeekableNext \/ PeekablePeek

SpecPeek == InitPeek /\ [][NextPeek]_vars

(***************************************************************************)
(* The streams a Parser is given: a metadata block and blocks after it, cut *)
(* anywhere, with at most one result after the cut.                        *)
(***************************************************************************)
Titles == {<<"T">>, <<"U">>}

SlideNames == {<<"A">>, <<"B">>}

FontSpecs == {[name |-> <<"f">>, path |-> <<"p">>, weight |-> 400],
              [name |-> <<"f">>, path |-> <<"p">>, weight |-> 700]}

MetadataBlock(title) ==
    <<Token("KeywordMetadata"), Token("OpeningBrace"), Token("KeywordTitle"),
      TokenString(title), Token("ClosingBrace")>>

SlideBlock(name) ==
    <<Token("KeywordSlide"), TokenString(name), Token("OpeningBrace"),
      Token("ClosingBrace")>>

FontBlock(f) ==
    <<Token("KeywordFont"), Token("OpeningBrace"),
      Token("KeywordPath"), TokenString(f.path), Token("Comma"),
      Token("KeywordName"), TokenName(f.name), Token("Comma"),
      Token("KeywordWeight"), TokenInteger(f.weight), Token("Comma"),
      Token("ClosingBrace")>>

RECURSIVE Concat(_)
Concat(blocks) ==
    IF blocks = << >> THEN << >> ELSE Head(blocks) \o Concat(Tail(blocks))

StyleBlock(fonts) ==
    <<Token("KeywordStyle"), Token("OpeningBrace")>>
        \o Concat([k \in 1..Len(fonts) |-> FontBlock(fonts[k])])
        \o <<Token("ClosingBrace")>>

FontLists == Strings(FontSpecs, MaxFonts)

\* the blocks that are mixed: slides, and style blocks of at most one font
Blocks == {SlideBlock(name) : name \in SlideNames}
              \cup {StyleBlock(fonts) : fonts \in Strings(FontSpecs, 1)}

\* a metadata block, then blocks or one style block of several fonts
WellFormed ==
    {MetadataBlock(title) \o Concat(blocks) :
        title \in Titles, blocks \in Strings(Blocks, MaxBlocks)}
        \cup {MetadataBlock(title) \o StyleBlock(fonts) :
                  title \in Titles, fonts \in FontLists}

Prefixes(streams) ==
    UNION {{SubSeq(stream, 1, n) : n \in 0..Len(stream)} : stream \in streams}

TailResults == {Token("KeywordMetadata"), Token("KeywordFont"),
                Token("ClosingBrace"), TokenName(<<"n">>), TokenInteger(7),
                MockFailure}

\* nothing, or one result, after the cut
Tails == {<< >>} \cup {<<result>> : result \in TailResults}

\* a block before the metadata block
Misplaced ==
    {block \o MetadataBlock(title) : block \in Blocks, title \in Titles}

FontFields == {"name", "path", "weight", "italic"}

\* a field of a font body with its comma
FieldTokens(f, field) ==
    IF field = "name" THEN <<Token("KeywordName"), TokenName(f.name), Token("Comma")>>
    ELSE IF field = "path"
    THEN <<Token("KeywordPath"), TokenString(f.path), Token("Comma")>>
    ELSE IF field = "weight"
    THEN <<Token("KeywordWeight"), TokenInteger(f.weight), Token("Comma")>>
    ELSE <<Token("KeywordItalic"), Token("Comma")>>

\* the fields of a font body in the given order
FontBody(f, order) ==
    Concat([k \in 1..Len(order) |-> FieldTokens(f, order[k])])

\* the orders of fields, each field at most once
FieldOrders ==
    {order \in Strings(FontFields, Cardinality(FontFields)) :
        \A i, j \in 1..Len(order) : order[i] = order[j] => i = j}

\* a metadata block, 'style { font {' and a font body
FontStart(title, f, order) ==
    MetadataBlock(title)
        \o <<Token("KeywordStyle"), Token("OpeningBrace"),
             Token("KeywordFont"), Token("OpeningBrace")>>
        \o FontBody(f, order)

BothClosed == <<Token("ClosingBrace"), Token("ClosingBrace")>>

\* a stream without its last result
Front(stream) == SubSeq(stream, 1, Len(stream) - 1)

\* a style block of one font whose fields come in any order: closed, ended
\* by the end of the stream or by a failure, or closed with the last comma
\* left out
FontStreams ==
    UNION {{FontStart(title, f, order) \o BothClosed,
            FontStart(title, f, order),
            FontStart(title, f, order) \o <<MockFailure>>,
            Front(FontStart(title, f, order)) \o BothClosed} :
              title \in {<<"T">>}, f \in FontSpecs, order \in FieldOrders}

\* weights across the range of the integers of the model
Weights == {0, 400, 65536, 2147483647, -1, -400, -65536, -2147483647}

WeightStreams ==
    {FontStart(<<"T">>, [name |-> <<"f">>, path |-> <<"p">>, weight |-> weight],
               <<"path", "name", "weight">>) \o BothClosed :
        weight \in Weights}

\* a stream with its n-th result replaced
Replaced(stream, n, result) ==
    [k \in 1..Len(stream) |-> IF k = n THEN result ELSE stream[k]]

\* a slide and a style block of one font with one result replaced
ReplacedStreams ==
    LET stream == MetadataBlock(<<"T">>) \o SlideBlock(<<"A">>)
                      \o StyleBlock(<<CHOOSE f \in FontSpecs : f.weight = 400>>)
    IN  {Replaced(stream, n, result) :
            n \in 1..Len(stream), result \in TailResults}

NoFontSpec == [name |-> << >>, path |-> << >>, weight |-> 0]

\* the blocks that are placed one after another: slides, and style blocks
\* of one font
PlacedBlocks ==
    {[kind |-> "slide", name |-> name, font |-> NoFontSpec] : name \in SlideNames}
        \cup {[kind |-> "style", name |-> << >>, font |-> f] : f \in FontSpecs}

PlacedTokens(block) ==
    IF block.kind = "slide" THEN SlideBlock(block.name)
    ELSE StyleBlock(<<block.font>>)

\* a metadata block, then the blocks
PlacedStream(blocks) ==
    MetadataBlock(<<"T">>)
        \o Concat([k \in 1..Len(blocks) |-> PlacedTokens(blocks[k])])

\* at most MaxPlaced blocks, in any order
PlacedLists == Strings(PlacedBlocks, MaxPlaced)

PlacedStreams == {PlacedStream(blocks) : blocks \in PlacedLists}

ParserStreams ==
    {Located(prefix \o tail) :
        prefix \in Prefixes(WellFormed), tail \in Tails}
        \cup {Located(stream) :
                  stream \in Misplaced \cup FontStreams \cup WeightStreams
                                 \cup ReplacedStreams \cup PlacedStreams}

(***************************************************************************)
(* The state machine of a Parser: Parser::new over the stream, then one    *)
(* call of parse().                                                        *)
(***************************************************************************)
InitParse ==
    /\ TokenizerIdle
    /\ tokens \in ParserStreams
    /\ peeked = PeekableTokenStream_new.peeked
    /\ drained = PeekableTokenStream_new.drained
    /\ ops = << >>
    /\ outcome = NotParsed
    /\ StyleIdle

ParserParse ==
    /\ outcome.status = "None"
    /\ \E out \in {parse([peeked |-> peeked, drained |-> drained])} :
           /\ peeked' = out.s.peeked
           /\ drained' = out.s.drained
           /\ outcome' = [status |-> out.status,
                          val |-> IF out.status = "Ok" THEN out.val
                                  ELSE NoPresentation,
                          err |-> out.err]
           /\ aborted' = (out.status = "Abort")
    /\ UNCHANGED <<data, iter, is_failed, line, column, calls, tokens, ops,
                   style_vars>>

NextParse == ParserParse

SpecParse == InitParse /\ [][NextParse]_vars

(***************************************************************************)
(* The state machine of a Style: one call of Style::new on a list of       *)
(* fonts.                                                                  *)
(***************************************************************************)
\* a font, and fonts that differ from it in one field
StyleFonts ==
    {Font_new(<<"f">>, <<"p">>, as_u32(500), FALSE),
     Font_new(<<"f">>, <<"q">>, as_u32(500), FALSE),
     Font_new(<<"g">>, <<"p">>, as_u32(500), FALSE),
     Font_new(<<"f">>, <<"p">>, as_u32(700), FALSE),
     Font_new(<<"f">>, <<"p">>, as_u32(500), TRUE)}

ParserIdle ==
    /\ tokens = << >>
    /\ peeked = PeekableTokenStream_new.peeked
    /\ drained = PeekableTokenStream_new.drained
    /\ ops = << >>
    /\ outcome = NotParsed

InitStyle ==
    /\ TokenizerIdle
    /\ ParserIdle
    /\ style_input \in Strings(StyleFonts, MaxFontList)
    /\ style_result = << >>

StyleNew ==
    /\ style_result = << >>
    /\ style_result' = <<Style_new(style_input)>>
    /\ UNCHANGED <<tokenizer_vars, parser_vars, style_input>>

NextStyle == StyleNew

SpecStyle == InitStyle /\ [][NextStyle]_vars

(***************************************************************************)
(* What the input holds at a position, read off the text alone.            *)
(* Positions are 1-based character positions of data.                      *)
(***************************************************************************)
CallIds == 1..Len(calls)

RECURSIVE SkipWhitespace(_)
\* the first position from q on that holds no whitespace (Len(data) + 1: none)
SkipWhitespace(q) ==
    IF q <= Len(data) /\ is_ascii_whitespace(data[q]) THEN SkipWhitespace(q + 1) ELSE q

\* where the token of a call that starts with p characters consumed begins
TokenStart(p) == SkipWhitespace(p + 1)

RECURSIVE NameRunEnd(_)
\* the last position of the run of name characters that holds position q
NameRunEnd(q) ==
    IF q < Len(data) /\ is_name_character(data[q + 1]) THEN NameRunEnd(q + 1) ELSE q

RECURSIVE DigitRunEnd(_)
\* the last position of the run of digits that starts at q (q - 1: no digit)
DigitRunEnd(q) ==
    IF q <= Len(data) /\ is_ascii_digit(data[q]) THEN DigitRunEnd(q + 1) ELSE q - 1

RECURSIVE StringScan(_)
\* the fate of a string body from position j on: it is closed at a quote,
\* stops at a backslash that escapes no quote, or runs into the end
StringScan(j) ==
    IF j > Len(data) THEN [fate |-> "unclosed", at |-> j]
    ELSE IF data[j] = QUOTE THEN [fate |-> "closed", at |-> j]
    ELSE IF data[j] = BACKSLASH
    THEN IF j < Len(data) /\ data[j + 1] = QUOTE THEN StringScan(j + 2)
         ELSE [fate |-> "escape", at |-> j]
    ELSE StringScan(j + 1)

\* the position reached when the first k characters have been consumed
LocationAfter(k) ==
    LET newlines == {j \in 1..k : data[j] = NEWLINE}
        last == IF newlines = {} THEN 0
                ELSE CHOOSE j \in newlines : \A m \in newlines : m <= j
    IN  SourceLocation(Cardinality(newlines), k - last)

\* a result is the name or keyword token of the text
IsNameToken(res, text) ==
    /\ res.kind = "Ok"
    /\ IF text \in KeywordTexts
       THEN \E kw \in Keywords : kw[1] = text /\ res.tok = kw[2]
       ELSE res.tok = "Name" /\ res.text = text

\* call i starts, past whitespace, on a name: a letter and its run of name
\* characters, with the lexer not latched
NameAt(i) ==
    /\ ~calls[i].failed
    /\ TokenStart(calls[i].pos) <= Len(data)
    /\ is_ascii_alphabetic(data[TokenStart(calls[i].pos)])

NameEnd(i) == NameRunEnd(TokenStart(calls[i].pos))

NameText(i) == SubSeq(data, TokenStart(calls[i].pos), NameEnd(i))

\* call i starts, past whitespace, on a string
StringAt(i) ==
    /\ ~calls[i].failed
    /\ TokenStart(calls[i].pos) <= Len(data)
    /\ data[TokenStart(calls[i].pos)] = QUOTE

StringFate(i) == StringScan(TokenStart(calls[i].pos) + 1)

(***************************************************************************)
(* C1. Once next() has returned UnexpectedCharacterInName, every later     *)
(* call of next() returns End, whatever input remains unread.              *)
(***************************************************************************)
C1_NameFailureLatches ==
    \A i \in CallIds :
        calls[i].res.tok = "UnexpectedCharacterInName"
        => \A j \in CallIds : j > i => calls[j].res.kind = "End"

\* a name failure with input left unread, and a later call that returned End
C1_Witness ==
    \E i \in CallIds :
        /\ calls[i].res.tok = "UnexpectedCharacterInName"
        /\ i < Len(calls)
        /\ calls[i + 1].res.kind = "End"
        /\ TokenStart(iter) <= Len(data)

(***************************************************************************)
(* C2. Every lexical error is terminal: after next() has returned Err of   *)
(* any kind, every later call of next() returns End.                       *)
(***************************************************************************)
C2_EveryFailureLatches ==
    \A i \in CallIds :
        calls[i].res.kind = "Err"
        => \A j \in CallIds : j > i => calls[j].res.kind = "End"

(***************************************************************************)
(* C3. When the input ends inside a string (an opening quote, no closing   *)
(* quote after it, every backslash escaping a quote), the call that starts *)
(* on the string returns UnclosedString, it is the only UnclosedString of  *)
(* the run, and every later call returns End.                              *)
(***************************************************************************)
C3_UnclosedStringOnce ==
    \A i \in CallIds :
        (StringAt(i) /\ StringFate(i).fate = "unclosed")
        => /\ calls[i].res.kind = "Err"
           /\ calls[i].res.tok = "UnclosedString"
           /\ \A j \in CallIds : j > i => calls[j].res.kind = "End"
           /\ \A j \in CallIds : calls[j].res.tok = "UnclosedString" => j = i

\* an unclosed string with a body, after an earlier token, then two Ends
C3_Witness ==
    \E i \in CallIds :
        /\ i > 1
        /\ StringAt(i) /\ StringFate(i).fate = "unclosed"
        /\ TokenStart(calls[i].pos) < Len(data)
        /\ i + 2 <= Len(calls)
        /\ calls[i + 2].res.kind = "End"

(***************************************************************************)
(* C4. A name of any length that is immediately followed by a comma is     *)
(* returned as the Name (or keyword) of exactly the name's text, and the   *)
(* next call returns the Comma: the comma is neither absorbed nor dropped. *)
(***************************************************************************)
C4_NameThenComma ==
    \A i \in CallIds :
        (NameAt(i) /\ NameEnd(i) < Len(data) /\ data[NameEnd(i) + 1] = COMMA)
        => /\ IsNameToken(calls[i].res, NameText(i))
           /\ i < Len(calls) => /\ calls[i + 1].pos = NameEnd(i)
                                /\ calls[i + 1].res.kind = "Ok"
                                /\ calls[i + 1].res.tok = "Comma"

\* a one-character name between two commas, both returned as Comma tokens
C4_Witness ==
    \E i \in CallIds :
        /\ NameAt(i) /\ Len(NameText(i)) = 1
        /\ NameEnd(i) < Len(data) /\ data[NameEnd(i) + 1] = COMMA
        /\ i > 1 /\ calls[i - 1].res.tok = "Comma"
        /\ i < Len(calls) /\ calls[i + 1].res.tok = "Comma"

(***************************************************************************)
(* C5. A decimal integer literal (an optional '-', then one digit or more) *)
(* that is followed by a comma, by whitespace or by the end of the input   *)
(* is returned as Integer with the literal's value, and a comma that       *)
(* follows it is returned as Comma by the next call.                       *)
(***************************************************************************)
\* call i starts, past whitespace, on an integer literal
LiteralAt(i) ==
    LET q == TokenStart(calls[i].pos)
        first == IF q <= Len(data) /\ data[q] = "-" THEN q + 1 ELSE q
    IN  /\ ~calls[i].failed
        /\ q <= Len(data)
        /\ DigitRunEnd(first) >= first

LiteralEnd(i) ==
    LET q == TokenStart(calls[i].pos)
    IN  DigitRunEnd(IF data[q] = "-" THEN q + 1 ELSE q)

LiteralValue(i) ==
    LET q == TokenStart(calls[i].pos)
    IN  IF data[q] = "-"
        THEN 0 - DigitsValue(SubSeq(data, q + 1, LiteralEnd(i)))
        ELSE DigitsValue(SubSeq(data, q, LiteralEnd(i)))

C5_IntegerLiteral ==
    \A i \in CallIds :
        (/\ LiteralAt(i)
         /\ \/ LiteralEnd(i) = Len(data)
            \/ data[LiteralEnd(i) + 1] = COMMA
            \/ is_ascii_whitespace(data[LiteralEnd(i) + 1]))
        => /\ calls[i].res.kind = "Ok"
           /\ calls[i].res.tok = "Integer"
           /\ calls[i].res.value = LiteralValue(i)
           /\ (i < Len(calls) /\ LiteralEnd(i) < Len(data)
               /\ data[LiteralEnd(i) + 1] = COMMA)
              => calls[i + 1].res.tok = "Comma"

(***************************************************************************)
(* C6. Whitespace is only a separator: a call that finds nothing but       *)
(* whitespace returns End, and when whitespace ends a name or a number the *)
(* token is the Name (or keyword) of the name's text, or the Integer of    *)
(* the literal's value, without the whitespace, whatever follows it.       *)
(***************************************************************************)
C6_WhitespaceSeparates ==
    \A i \in CallIds :
        /\ (~calls[i].failed /\ TokenStart(calls[i].pos) > Len(data))
           => calls[i].res.kind = "End"
        /\ (NameAt(i) /\ NameEnd(i) < Len(data)
            /\ is_ascii_whitespace(data[NameEnd(i) + 1]))
           => IsNameToken(calls[i].res, NameText(i))
        /\ (LiteralAt(i) /\ LiteralEnd(i) < Len(data)
            /\ is_ascii_whitespace(data[LiteralEnd(i) + 1]))
           => /\ calls[i].res.kind = "Ok"
              /\ calls[i].res.tok = "Integer"
              /\ calls[i].res.value = LiteralValue(i)

(***************************************************************************)
(* C7. A completed name whose text is one of the nine keywords is returned *)
(* as that keyword's token and every other completed name as Name with its *)
(* text, whether the name is ended by whitespace, by a comma lookahead or  *)
(* by the end of the input.                                                *)
(***************************************************************************)
C7_KeywordLookup ==
    \A i \in CallIds :
        (/\ NameAt(i)
         /\ \/ NameEnd(i) = Len(data)
            \/ data[NameEnd(i) + 1] = COMMA
            \/ is_ascii_whitespace(data[NameEnd(i) + 1]))
        => IsNameToken(calls[i].res, NameText(i))

(***************************************************************************)
(* C8. Escape decoding round-trips: when the input is a text without       *)
(* backslash in which every double quote was replaced by backslash-quote,  *)
(* wrapped in double quotes, the first call returns the String token whose *)
(* value is that text and the second call returns End.                     *)
(***************************************************************************)
\* the text between the first and the last character, backslashes removed:
\* the one text without backslash that the input can be the encoding of
Plain(s) == SelectSeq(SubSeq(s, 2, Len(s) - 1), LAMBDA c : c # BACKSLASH)

IsEncoded(s) == Len(s) >= 2 /\ s = Encode(Plain(s))

C8_EscapeRoundTrip ==
    IsEncoded(data)
    => /\ Len(calls) >= 1 => /\ calls[1].res.kind = "Ok"
                             /\ calls[1].res.tok = "String"
                             /\ calls[1].res.text = Plain(data)
       /\ Len(calls) >= 2 => calls[2].res.kind = "End"

\* an encoded text that holds a double quote, tokenized to the end
C8_Witness ==
    /\ IsEncoded(data)
    /\ \E k \in 1..Len(Plain(data)) : Plain(data)[k] = QUOTE
    /\ Len(Plain(data)) >= 2
    /\ Len(calls) >= 2

(***************************************************************************)
(* C9. Inside a string, a backslash followed by a character c other than a *)
(* double quote makes next() return UnknownEscapeSequence(c), a backslash  *)
(* that ends the input makes it return UnfinishedEscapeSequence, and the   *)
(* failure's location is the position just after the backslash.            *)
(***************************************************************************)
C9_EscapeFailures ==
    \A i \in CallIds :
        (StringAt(i) /\ StringFate(i).fate = "escape")
        => LET k == StringFate(i).at
           IN  /\ calls[i].res.kind = "Err"
               /\ calls[i].res.start = LocationAfter(k)
               /\ IF k < Len(data)
                  THEN /\ calls[i].res.tok = "UnknownEscapeSequence"
                       /\ calls[i].res.text = <<data[k + 1]>>
                  ELSE calls[i].res.tok = "UnfinishedEscapeSequence"

\* an unknown escape on a later line, behind other characters of the body
C9_Witness ==
    \E i \in CallIds :
        /\ StringAt(i) /\ StringFate(i).fate = "escape"
        /\ StringFate(i).at < Len(data)
        /\ StringFate(i).at > TokenStart(calls[i].pos) + 1
        /\ calls[i].res.start.line >= 1

(***************************************************************************)
(* C10. For a non-empty input of ASCII letters only, the first call        *)
(* returns the Name or keyword token of the whole input and the second     *)
(* call returns End.                                                       *)
(***************************************************************************)
C10_LettersOnly ==
    (Len(data) >= 1 /\ \A k \in 1..Len(data) : is_ascii_alphabetic(data[k]))
    => /\ Len(calls) >= 1 => IsNameToken(calls[1].res, data)
       /\ Len(calls) >= 2 => calls[2].res.kind = "End"

\* an input of several letters in both cases, tokenized to the end
C10_Witness ==
    /\ Len(data) >= 2
    /\ \A k \in 1..Len(data) : is_ascii_alphabetic(data[k])
    /\ \E k \in 1..Len(data) : data[k] \in AsciiUpper
    /\ Len(calls) >= 2
    /\ calls[2].res.kind = "End"

(***************************************************************************)
(* C11. An UnexpectedCharacter failure for the k-th character of the line  *)
(* reached after L newlines carries SourceLocation{line: L, column: k}; an *)
(* invalid character right after one newline is reported at (1, 1).        *)
(***************************************************************************)
\* a character that starts no token and is no separator
IsUnexpected(character) ==
    /\ ~is_ascii_alphabetic(character)
    /\ ~is_ascii_digit(character)
    /\ ~is_ascii_whitespace(character)
    /\ character \notin {QUOTE, "-", "{", "}", COMMA}

C11_UnexpectedCharacterLocation ==
    \A i \in CallIds :
        (/\ ~calls[i].failed
         /\ TokenStart(calls[i].pos) <= Len(data)
         /\ IsUnexpected(data[TokenStart(calls[i].pos)]))
        => /\ calls[i].res.kind = "Err"
           /\ calls[i].res.tok = "UnexpectedCharacter"
           /\ calls[i].res.text = <<data[TokenStart(calls[i].pos)]>>
           /\ calls[i].res.start = LocationAfter(TokenStart(calls[i].pos))

\* an invalid character right after one newline, reported at (1, 1)
C11_Witness ==
    \E i \in CallIds :
        /\ calls[i].res.tok = "UnexpectedCharacter"
        /\ TokenStart(calls[i].pos) >= 2
        /\ data[TokenStart(calls[i].pos) - 1] = NEWLINE
        /\ calls[i].res.start = SourceLocation(1, 1)

(***************************************************************************)
(* C12. After any sequence of next() calls, line is the number of newlines *)
(* consumed and column the number of characters consumed since the last    *)
(* consumed newline: a call that finds the input exhausted changes none.   *)
(***************************************************************************)
C12_PositionCountsConsumed ==
    /\ line = LocationAfter(iter).line
    /\ column = LocationAfter(iter).column

\* column after call i
ColumnAfter(i) == IF i < Len(calls) THEN calls[i + 1].column ELSE column

\* line after call i
LineAfter(i) == IF i < Len(calls) THEN calls[i + 1].line ELSE line

\* C12 as amended: line is the number of newlines consumed; column is the
\* number of characters consumed since the last consumed newline while input
\* remains, and never less; every call that starts on an exhausted input
\* without the latch adds one to column and leaves line alone.
C12_PositionAmended ==
    /\ line = LocationAfter(iter).line
    /\ iter < Len(data) => column = LocationAfter(iter).column
    /\ column >= LocationAfter(iter).column
    /\ column <= LocationAfter(iter).column + Len(calls)
    /\ \A i \in CallIds :
           (calls[i].pos = Len(data) /\ ~calls[i].failed)
           => /\ ColumnAfter(i) = calls[i].column + 1
              /\ LineAfter(i) = calls[i].line

\* newlines were consumed, and two calls found the input exhausted
C12_Witness ==
    /\ Len(calls) >= 3
    /\ line >= 1
    /\ iter = Len(data)
    /\ ~is_failed
    /\ calls[Len(calls) - 1].pos = Len(data)
    /\ column >= LocationAfter(iter).column + 2

(***************************************************************************)
(* C13. Every Ok(token, range) returned by next() has range.start <=       *)
(* range.end in (line, column) order, and the tokens '{', '}' and ','      *)
(* have start = end.                                                       *)
(***************************************************************************)
\* the derived Ord of SourceLocation: by line, then by column
LocationLe(a, b) ==
    a.line < b.line \/ (a.line = b.line /\ a.column <= b.column)

C13_RangeOrdered ==
    \A i \in CallIds :
        calls[i].res.kind = "Ok"
        => /\ LocationLe(calls[i].res.start, calls[i].res.end)
           /\ calls[i].res.tok \in {"OpeningBrace", "ClosingBrace", "Comma"}
              => calls[i].res.start = calls[i].res.end

\* a token that ends on a later line at a smaller column, and a brace
C13_Witness ==
    /\ \E i \in CallIds :
           /\ calls[i].res.kind = "Ok"
           /\ calls[i].res.start.line < calls[i].res.end.line
           /\ calls[i].res.end.column < calls[i].res.start.column
    /\ \E i \in CallIds :
           /\ calls[i].res.tok \in {"OpeningBrace", "ClosingBrace", "Comma"}
           /\ calls[i].res.start.column >= 2

(***************************************************************************)
(* PeekableTokenStream: helpers of the claims.                             *)
(***************************************************************************)
OpIds == 1..Len(ops)

\* the k-th result the inner stream returns from its own next()
InnerResult(k) == IF k <= Len(tokens) THEN tokens[k] ELSE TokenizerEnd

\* the calls of next() on the PeekableTokenStream, in order
NextOps == SelectSeq(ops, LAMBDA o : o.op = "next")

\* C14: a next() that follows a peek() returns the result peek() showed, and
\* the call after that next() returns the result of the inner stream that
\* follows the ones it had served when peek() returned
C14_NextAfterPeek ==
    \A i \in OpIds :
        (i < Len(ops) /\ ops[i].op = "peek" /\ ops[i + 1].op = "next")
            => /\ ops[i + 1].res = ops[i].res
               /\ (i + 2 <= Len(ops))
                    => ops[i + 2].res = InnerResult(ops[i].drained + 1)

\* a peek() that shows a token, the next() after it, and a call after that
\* which returns another result
C14_Witness ==
    \E i \in OpIds :
        /\ i + 2 <= Len(ops)
        /\ ops[i].op = "peek" /\ ops[i + 1].op = "next"
        /\ ops[i].res.kind = "Ok"
        /\ ops[i + 2].res # ops[i].res

\* C15: peek() after peek() returns the same result and asks the inner stream
\* for nothing; the inner stream has served at most one result more than the
\* PeekableTokenStream has returned from next()
C15_PeekIsIdempotent ==
    /\ \A i \in OpIds :
        (i < Len(ops) /\ ops[i].op = "peek" /\ ops[i + 1].op = "peek")
            => /\ ops[i + 1].res = ops[i].res
               /\ ops[i + 1].drained = ops[i].drained
    /\ drained <= Len(NextOps) + 1
    /\ \A i \in OpIds : ops[i].drained <= Len(SelectSeq(SubSeq(ops, 1, i),
                                                  LAMBDA o : o.op = "next")) + 1

\* three calls of peek() in a row over a stream whose first two results
\* differ, with one result looked ahead
C15_Witness ==
    /\ Len(tokens) >= 2 /\ tokens[1] # tokens[2]
    /\ \E i \in OpIds :
        /\ i + 2 <= Len(ops)
        /\ ops[i].op = "peek" /\ ops[i + 1].op = "peek" /\ ops[i + 2].op = "peek"
    /\ drained = Len(NextOps) + 1

\* C16: the k-th result returned by next() of the PeekableTokenStream is the
\* k-th result of the inner stream, whatever calls of peek() lie between; with
\* no peek() the inner stream has served exactly the results returned
C16_SameSequence ==
    /\ \A k \in 1..Len(NextOps) : NextOps[k].res = InnerResult(k)
    /\ (\A i \in OpIds : ops[i].op = "next") => drained = Len(ops)

\* peek() and next() interleaved: a next() after a peek(), a next() after a
\* next(), and results past the end of the vector
C16_Witness ==
    /\ Len(tokens) >= 2 /\ tokens[1] # tokens[2] /\ tokens[2].kind # "End"
    /\ Len(NextOps) > Len(tokens)
    /\ \E i \in OpIds : i < Len(ops) /\ ops[i].op = "peek" /\ ops[i + 1].op = "next"
    /\ \E i \in OpIds : i < Len(ops) /\ ops[i].op = "next" /\ ops[i + 1].op = "next"

(***************************************************************************)
(* Parser: helpers of the claims.  Blocks are recognised in the stream by  *)
(* their tokens, whatever the parser makes of them.                        *)
(***************************************************************************)
Parsed == outcome.status # "None"

StreamTokens == Unlocated(tokens)

RangeOf(res) == SourceLocationRange(res.start, res.end)

MetadataBlockAtStart ==
    /\ Len(tokens) >= 5
    /\ \E title \in Titles : SubSeq(StreamTokens, 1, 5) = MetadataBlock(title)

\* a slide block lies right after the first p results
SlideBlockAt(p) ==
    /\ p + 4 <= Len(tokens)
    /\ \E name \in SlideNames : SubSeq(StreamTokens, p + 1, p + 4) = SlideBlock(name)

FontBlockAt(p) ==
    /\ p + 12 <= Len(tokens)
    /\ \E f \in FontSpecs : SubSeq(StreamTokens, p + 1, p + 12) = FontBlock(f)

RECURSIVE FontBlocksEnd(_)
\* the end of the font blocks that lie one after another right after p
FontBlocksEnd(p) == IF FontBlockAt(p) THEN FontBlocksEnd(p + 12) ELSE p

\* the end of the style block that lies right after p (0: there is none)
StyleBlockEnd(p) ==
    IF /\ p + 2 <= Len(tokens)
       /\ SubSeq(StreamTokens, p + 1, p + 2)
              = <<Token("KeywordStyle"), Token("OpeningBrace")>>
    THEN LET q == FontBlocksEnd(p + 2)
         IN  IF q < Len(tokens) /\ StreamTokens[q + 1] = Token("ClosingBrace")
             THEN q + 1 ELSE 0
    ELSE 0

RECURSIVE BlockEnds(_)
\* p and the ends of the complete blocks that lie one after another after p
BlockEnds(p) ==
    {p} \cup (IF SlideBlockAt(p) THEN BlockEnds(p + 4)
              ELSE IF StyleBlockEnd(p) > 0 THEN BlockEnds(StyleBlockEnd(p))
              ELSE {})

\* the ends of the metadata block and of the complete blocks after it
TopLevelPositions == IF MetadataBlockAtStart THEN BlockEnds(5) ELSE {}

Range(seq) == {seq[k] : k \in 1..Len(seq)}

\* C17: when the first result of the stream is a token other than
\* KeywordMetadata, parse() returns UnexpectedToken with that token as
\* actual, KeywordMetadata as expected and the token's range, and no
\* Presentation
C17_MetadataFirst ==
    (/\ Parsed
     /\ Len(tokens) >= 1
     /\ tokens[1].kind = "Ok"
     /\ tokens[1].tok # "KeywordMetadata")
        => /\ outcome.status = "Err"
           /\ outcome.err = UnexpectedToken(TokenDebug(tokens[1]),
                                <<"KeywordMetadata">>, RangeOf(tokens[1]))
           /\ outcome.val = NoPresentation

\* parse() has run on a slide block followed by a metadata block
C17_Witness ==
    /\ Parsed
    /\ Len(tokens) > 5
    /\ tokens[1].kind = "Ok" /\ tokens[1].tok = "KeywordSlide"
    /\ \E k \in 1..Len(tokens) : tokens[k].tok = "KeywordMetadata"
    /\ outcome.status = "Err"

\* C18: for a metadata block with a title followed by n >= 0 slide blocks and
\* nothing else, parse() returns a Presentation with that title, the n slides
\* with their names in the order of the stream, and a style with no font
C18_SlidesInOrder ==
    Parsed =>
        \A title \in Titles, names \in Strings(SlideNames, MaxBlocks) :
            StreamTokens = MetadataBlock(title)
                \o Concat([k \in 1..Len(names) |-> SlideBlock(names[k])])
            => /\ outcome.status = "Ok"
               /\ outcome.val.title = title
               /\ Len(outcome.val.slides) = Len(names)
               /\ \A k \in 1..Len(names) : outcome.val.slides[k].name = names[k]
               /\ outcome.val.style.ok
               /\ outcome.val.style.fonts = {}

\* parse() has returned a Presentation with two slides of different names
\* from a stream with no style block
C18_Witness ==
    /\ Parsed
    /\ outcome.status = "Ok"
    /\ Len(outcome.val.slides) = 2
    /\ outcome.val.slides[1] # outcome.val.slides[2]
    /\ \A k \in 1..Len(tokens) : tokens[k].tok # "KeywordStyle"

\* C19: when the result after the metadata block, or after a complete slide
\* or style block, is a token that is neither KeywordSlide nor KeywordStyle,
\* parse() fails with UnexpectedToken whose expected lists KeywordSlide and
\* KeywordStyle, whose actual is that token and whose location is its range
C19_BlockExpected ==
    Parsed =>
        \A p \in TopLevelPositions :
            (/\ p < Len(tokens)
             /\ tokens[p + 1].kind = "Ok"
             /\ tokens[p + 1].tok \notin {"KeywordSlide", "KeywordStyle"})
                => /\ outcome.status = "Err"
                   /\ outcome.err.variant = "UnexpectedToken"
                   /\ {"KeywordSlide", "KeywordStyle"} \subseteq Range(outcome.err.expected)
                   /\ outcome.err.actual = TokenDebug(tokens[p + 1])
                   /\ outcome.err.location = RangeOf(tokens[p + 1])

\* C20: for a metadata block followed by 'style {', k >= 0 font blocks with
\* distinct descriptors and '}', parse() succeeds and the style holds exactly
\* those k fonts
C20_AnyNumberOfFonts ==
    Parsed =>
        \A title \in Titles, fonts \in FontLists :
            (/\ \A i, j \in 1..Len(fonts) :
                    (fonts[i].name = fonts[j].name /\ fonts[i].weight = fonts[j].weight)
                        => i = j
             /\ StreamTokens = MetadataBlock(title) \o StyleBlock(fonts))
                => /\ outcome.status = "Ok"
                   /\ outcome.val.style.ok
                   /\ outcome.val.style.fonts
                        = {Font_new(fonts[k].name, fonts[k].path,
                                    as_u32(fonts[k].weight), FALSE) :
                              k \in 1..Len(fonts)}

(***************************************************************************)
(* Font bodies: helpers of the claims.                                     *)
(***************************************************************************)
RequiredFields == {"name", "path", "weight"}

\* the orders of fields that hold only name, path and weight
RequiredOrders == {order \in FieldOrders : Range(order) \subseteq RequiredFields}

\* the Font that parse_font is to build from the fields of f
FontOf(f, italic) == Font_new(f.name, f.path, as_u32(f.weight), italic)

\* the stream begins with the results of start, located or not
StartsWith(start) ==
    /\ Len(start) <= Len(tokens)
    /\ \A k \in 1..Len(start) : StreamTokens[k] = start[k]

\* C21: a font body of name, path and weight in any order, closed by '}',
\* yields the same Font; a field with no Comma after it (another token, or
\* the end of the stream) makes parse() fail with an error whose expected is
\* Comma
C21_FieldsInAnyOrder ==
    Parsed =>
        \A title \in Titles, f \in FontSpecs, order \in RequiredOrders :
            /\ (/\ Range(order) = RequiredFields
                /\ StreamTokens = FontStart(title, f, order) \o BothClosed)
                    => /\ outcome.status = "Ok"
                       /\ outcome.val.style.fonts = {FontOf(f, FALSE)}
            /\ (/\ order # << >>
                /\ StartsWith(Front(FontStart(title, f, order)))
                /\ LET n == Len(FontStart(title, f, order))
                   IN  \/ Len(tokens) = n - 1
                       \/ /\ tokens[n].kind = "Ok"
                          /\ tokens[n].tok # "Comma")
                    => /\ outcome.status = "Err"
                       /\ outcome.err.variant \in {"UnexpectedToken",
                                                   "UnexpectedEndOfStream"}
                       /\ outcome.err.expected = <<"Comma">>

\* parse() has built a Font from a body that begins with the weight and ends
\* with the path
C21_Witness ==
    /\ Parsed
    /\ outcome.status = "Ok"
    /\ \E f \in FontSpecs :
        /\ StreamTokens = FontStart(<<"T">>, f, <<"weight", "name", "path">>)
                              \o BothClosed
        /\ outcome.val.style.fonts = {FontOf(f, FALSE)}

\* C22: a font body that holds 'italic ,' with name, path and weight parses
\* to a Font whose italic flag is true, and a body of name, path and weight
\* alone to a Font whose italic flag is false
C22_ItalicField ==
    Parsed =>
        \A title \in Titles, f \in FontSpecs, order \in FieldOrders :
            (/\ RequiredFields \subseteq Range(order)
             /\ StreamTokens = FontStart(title, f, order) \o BothClosed)
                => /\ outcome.status = "Ok"
                   /\ outcome.val.style.fonts
                        = {FontOf(f, "italic" \in Range(order))}

\* the failures among the results the stream has returned to the parser
ServedFailures == {k \in 1..Len(tokens) : k <= drained /\ tokens[k].kind = "Err"}

\* C23: when the stream has returned Err(f) to the parser, in whatever block,
\* parse() returns Err(TokenizerFailure(f)), and never Ok
C23_FailurePassedThrough ==
    Parsed =>
        \A k \in ServedFailures :
            (\A j \in ServedFailures : k <= j)
                => /\ outcome.status = "Err"
                   /\ outcome.err.variant = "TokenizerFailure"
                   /\ outcome.err.failure.kind = tokens[k].tok
                   /\ outcome.err.failure.location = tokens[k].start

\* the streams of the grammar among those given: a metadata block and
\* complete blocks, a font body holding at least name, path and weight
Grammatical ==
    WellFormed
        \cup {FontStart(title, f, order) \o BothClosed :
                title \in Titles, f \in FontSpecs,
                order \in {o \in FieldOrders : RequiredFields \subseteq Range(o)}}

\* the tokens the grammar lets follow the stream, when the stream is the
\* beginning of a longer stream of the grammar
RequiredNext ==
    {w[Len(tokens) + 1].tok :
        w \in {g \in Grammatical : Len(g) > Len(tokens) /\ StartsWith(SubSeq(g, 1, Len(tokens)))}}

\* the token an expected text names: a pattern names its variant
NamedToken(text) ==
    IF text \in {"String(title)", "String(slide_name)", "String(font_path)"}
    THEN "String"
    ELSE IF text = "Name(font_name)" THEN "Name"
    ELSE IF text = "Integer(font_weight)" THEN "Integer"
    ELSE text

\* C24: when the stream ends where the grammar still requires a token, in
\* the metadata block, a slide, a style body or a font body, parse() returns
\* Err(UnexpectedEndOfStream{expected}) and expected names a required token
C24_EndOfStreamReported ==
    (/\ Parsed
     /\ drained > Len(tokens)
     /\ Len(tokens) \notin TopLevelPositions
     /\ RequiredNext # {})
        => /\ outcome.status = "Err"
           /\ outcome.err.variant = "UnexpectedEndOfStream"
           /\ outcome.err.expected # << >>
           /\ \A k \in 1..Len(outcome.err.expected) :
                NamedToken(outcome.err.expected[k]) \in RequiredNext

(***************************************************************************)
(* Style::new: helpers of the claims.                                      *)
(***************************************************************************)
\* same name, weight and italic, whatever the path
SameDescriptor(a, b) ==
    /\ a.descriptor.name = b.descriptor.name
    /\ a.descriptor.weight = b.descriptor.weight
    /\ a.descriptor.italic = b.descriptor.italic

\* the pairs of places of the list that hold fonts of the same descriptor
DuplicatePairs ==
    {pair \in (1..Len(style_input)) \X (1..Len(style_input)) :
        /\ pair[1] < pair[2]
        /\ SameDescriptor(style_input[pair[1]], style_input[pair[2]])}

\* C25: Style::new returns Err(DuplicateFont(d)) exactly when two fonts of the
\* list have the same name, weight and italic, d being the descriptor of such
\* fonts; otherwise it returns a Style that holds every font of the list,
\* one for each descriptor
C25_DuplicateFont ==
    style_result # << >> =>
        LET returned == style_result[1]
        IN  /\ returned.ok <=> DuplicatePairs = {}
            /\ ~returned.ok
                => \E pair \in DuplicatePairs :
                     returned.duplicate = style_input[pair[1]].descriptor
            /\ returned.ok
                => /\ returned.fonts = Range(style_input)
                   /\ Cardinality(returned.fonts) = Len(style_input)
                   /\ \A f, g \in returned.fonts : SameDescriptor(f, g) => f = g

\* Style::new has refused a list of three fonts whose first and last font
\* differ in the path alone
C25_Witness ==
    /\ style_result # << >>
    /\ ~style_result[1].ok
    /\ Len(style_input) = 3
    /\ style_input[1].path # style_input[3].path
    /\ SameDescriptor(style_input[1], style_input[3])
    /\ ~SameDescriptor(style_input[1], style_input[2])

\* C26: when a style block declares two fonts of the same descriptor,
\* parse() returns Err(InvalidStyleDefinition(DuplicateFont(descriptor))) and
\* no Presentation
C26_DuplicateFontReported ==
    Parsed =>
        \A title \in Titles, fonts \in FontLists :
            (/\ StreamTokens = MetadataBlock(title) \o StyleBlock(fonts)
             /\ \E i, j \in 1..Len(fonts) :
                    /\ i < j
                    /\ fonts[i].name = fonts[j].name
                    /\ fonts[i].weight = fonts[j].weight)
                => /\ outcome.status = "Err"
                   /\ outcome.err.variant = "InvalidStyleDefinition"
                   /\ outcome.val = NoPresentation

\* C27: every call of next() returns Ok, Err or End and the process never
\* aborts, also when a character of more than one byte follows a name or a
\* number in progress
C27_NeverAborts ==
    /\ ~aborted
    /\ \A i \in CallIds : calls[i].res.kind \in {"Ok", "Err", "End"}

\* C28: when a font body of name, path and weight fields ends, by its closing
\* brace or because the stream returns End or Err where a field is due,
\* before all three have been supplied, parse() aborts the process and
\* returns no ParserError
C28_MissingFieldAborts ==
    Parsed =>
        \A title \in Titles, f \in FontSpecs, order \in RequiredOrders :
            LET start == FontStart(title, f, order)
            IN  (/\ Range(order) # RequiredFields
                 /\ StartsWith(start)
                 /\ \/ Len(tokens) = Len(start)
                    \/ tokens[Len(start) + 1].kind = "Err"
                    \/ StreamTokens[Len(start) + 1] = Token("ClosingBrace"))
                    => /\ outcome.status = "Abort"
                       /\ outcome.err = NoError
                       /\ aborted

\* parse() has aborted on a font body closed after its name and its path
C28_Witness ==
    /\ Parsed
    /\ outcome.status = "Abort"
    /\ \E f \in FontSpecs :
        StreamTokens = FontStart(<<"T">>, f, <<"name", "path">>) \o BothClosed

\* the cursor, the line, the column and the failure latch after call i
StateAfter(i) ==
    IF i < Len(calls)
    THEN <<calls[i + 1].pos, calls[i + 1].line, calls[i + 1].column,
           calls[i + 1].failed>>
    ELSE <<iter, line, column, is_failed>>

\* C29: a call of next() made while the failure latch is set returns End and
\* leaves the cursor, the line, the column and the latch as they were
C29_LatchedCallChangesNothing ==
    \A i \in CallIds :
        calls[i].failed =>
            /\ calls[i].res = TokenizerEnd
            /\ StateAfter(i) = <<calls[i].pos, calls[i].line,
                                 calls[i].column, TRUE>>

\* two calls have been made with the latch set while input was left to read
C29_Witness ==
    \E i \in CallIds :
        /\ i < Len(calls)
        /\ calls[i].failed
        /\ calls[i + 1].failed
        /\ calls[i].pos < Len(data)

\* the stream of a presentation with one font of the given weight
WeightStream(weight) ==
    FontStart(<<"T">>, [name |-> <<"f">>, path |-> <<"p">>, weight |-> weight],
              <<"path", "name", "weight">>) \o BothClosed

\* w, as two 16-bit halves, is the u32 that is congruent to v modulo 2^32
CongruentU32(w, v) ==
    /\ w.hi \in 0..65535
    /\ w.lo \in 0..65535
    /\ (v - w.lo) % 65536 = 0
    /\ ((v - w.lo) \div 65536 - w.hi) % 65536 = 0

C31_NameCharacters ==
    \A i \in CallIds :
        (calls[i].res.kind = "Ok" /\ calls[i].res.tok = "Name")
            => /\ calls[i].res.text # << >>
               /\ is_ascii_alphabetic(calls[i].res.text[1])
               /\ \A k \in 1..Len(calls[i].res.text) :
                    is_name_character(calls[i].res.text[k])

\* C32: once next() has returned End, every later call returns End
C32_EndIsSticky ==
    \A i \in CallIds, j \in CallIds :
        (i < j /\ calls[i].res = TokenizerEnd) => calls[j].res = TokenizerEnd

\* End has been returned twice in a row at the end of an input whose first
\* call gave a token
C32_Witness ==
    \E i \in CallIds :
        /\ 1 < i /\ i < Len(calls)
        /\ calls[1].res.kind = "Ok"
        /\ ~calls[i].failed /\ calls[i].pos = Len(data)
        /\ calls[i].res = TokenizerEnd /\ calls[i + 1].res = TokenizerEnd

\* the calls that have returned End
EndCalls == {i \in CallIds : calls[i].res = TokenizerEnd}

\* every call that returned Ok or Err has moved the cursor forward
Progress ==
    \A i \in CallIds :
        calls[i].res.kind \in {"Ok", "Err"} => StateAfter(i)[1] > calls[i].pos

\* C33: every call of next() that returns Ok or Err has consumed at least one
\* character, and on an input of n characters the calls reach End with call
\* n + 1 at the latest: the calls neither stop before End nor go past call
\* n + 1 without it
C33_ProgressAndTermination ==
    /\ Progress
    /\ (aborted \/ Len(calls) >= Len(data) + 1)
            => \E i \in EndCalls : i <= Len(data) + 1

\* the number of results of the stream that are the token tok
Count(tok) ==
    Cardinality({k \in 1..Len(tokens) :
                    tokens[k].kind = "Ok" /\ tokens[k].tok = tok})

\* C34: parse() returns Ok only when it has seen End at the top level: it has
\* taken every result of the stream, End is the result it has looked at
\* last, the result before it closes a block, and in a stream of tokens
\* every brace is closed; a token other than KeywordSlide and KeywordStyle
\* after the metadata block or after a complete block makes parse() fail
C34_OkOnlyAfterEnd ==
    Parsed =>
        /\ outcome.status = "Ok"
            => /\ drained = Len(tokens) + 1
               /\ peeked = <<TokenizerEnd>>
               /\ StreamTokens[Len(tokens)] = Token("ClosingBrace")
               /\ (\A k \in 1..Len(tokens) : tokens[k].kind = "Ok")
                    => Count("OpeningBrace") = Count("ClosingBrace")
        /\ \A p \in TopLevelPositions :
            (/\ p < Len(tokens)
             /\ tokens[p + 1].kind = "Ok"
             /\ tokens[p + 1].tok \notin {"KeywordSlide", "KeywordStyle"})
                => /\ outcome.status = "Err"
                   /\ outcome.val = NoPresentation

\* parse() has failed on a Name that follows a complete block
C34_Witness ==
    /\ Parsed
    /\ outcome.status = "Err"
    /\ \E p \in TopLevelPositions :
        /\ 5 < p /\ p < Len(tokens)
        /\ tokens[p + 1].kind = "Ok" /\ tokens[p + 1].tok = "Name"

\* the blocks of the given kind, in their order
BlocksOfKind(blocks, kind) == SelectSeq(blocks, LAMBDA block : block.kind = kind)

\* C35: when the stream holds two or more style blocks among its slides,
\* parse() succeeds, the style is the one of the last style block alone, and
\* the slides are those of the stream in their order, wherever the style
\* blocks lie
C35_LastStyleWins ==
    Parsed =>
        \A stream \in {StreamTokens} \cap PlacedStreams :
            \A blocks \in PlacedLists :
                LET styles == BlocksOfKind(blocks, "style")
                    slides == BlocksOfKind(blocks, "slide")
                IN  (/\ Len(styles) >= 2
                     /\ Len(stream) = 5 + 4 * Len(slides) + 15 * Len(styles)
                     /\ stream = PlacedStream(blocks))
                        => /\ outcome.status = "Ok"
                           /\ outcome.val.style = Style_new(
                                  <<FontOf(styles[Len(styles)].font, FALSE)>>)
                           /\ Len(outcome.val.slides) = Len(slides)
                           /\ \A k \in 1..Len(slides) :
                                outcome.val.slides[k].name = slides[k].name

\* parse() has run on a slide, a style block, another slide and a style
\* block of another font, and has kept the second font only
C35_Witness ==
    /\ Parsed
    /\ outcome.status = "Ok"
    /\ \E f \in FontSpecs, g \in FontSpecs :
        /\ f # g
        /\ StreamTokens = PlacedStream(
               <<[kind |-> "slide", name |-> <<"A">>, font |-> NoFontSpec],
                 [kind |-> "style", name |-> << >>, font |-> f],
                 [kind |-> "slide", name |-> <<"B">>, font |-> NoFontSpec],
                 [kind |-> "style", name |-> << >>, font |-> g]>>)
        /\ outcome.val.style.fonts = {FontOf(g, FALSE)}
        /\ Len(outcome.val.slides) = 2

====
